---- MODULE Spec2Model ----
(***************************************************************************)
(* Epoch-based reclamation of src/src/epoch.rs.                            *)
(*                                                                         *)
(* Shared state: EPOCH.counter, the Registration list (head, next, the     *)
(* active flag and the counter cell of every node) and one AtomicPtr slot. *)
(* Thread-local state: RECENT and PREVIOUS, the Worker a thread holds, the *)
(* Res guards borrowed from it and the locals of the call in progress.     *)
(* Every access to shared memory is one step; a thread's local work is     *)
(* done in the step of the shared access that precedes it.  The counter    *)
(* cell of a Registration is a plain Cell<isize> read by other threads:    *)
(* its reads and writes are word accesses that interleave freely.          *)
(* A thread holds at most one Worker at a time; a Worker never leaves the  *)
(* thread that acquired it (Worker is neither Send nor Sync).  Values are  *)
(* numbered in the order swap boxes them; the initial one is InitVal.      *)
(*                                                                         *)
(* Spec runs the whole interface from the empty Registration list.         *)
(* SpecRun starts where the threads of tests/check_drop.rs stand after     *)
(* create_register and runs load, guard release and swap only, with a      *)
(* larger number of calls.  SpecPush starts from SpecRun's first state     *)
(* after thread 1 alone has completed one swap, so that a thread has calls *)
(* enough for a swap that appends and two that rotate.  SpecFair is Spec   *)
(* with weak fairness of every thread and a smaller budget.  SpecLeak runs *)
(* clients that only load and that may leak a guard.  lim holds the        *)
(* number of calls the client program makes; creator, retired and last     *)
(* record history and are read by no action's guard.                       *)
(***************************************************************************)
EXTENDS Integers, Sequences, FiniteSets, TLC

\* ---------------------------------------------------------------- bounds
\* Spec: the whole program from the empty list
NThreads == 2
MaxRegs == 2
MaxVals == 3
MaxLoads == 1
MaxDrops == 2
MaxGuards == 2
\* SpecRun: loads and swaps of RunThreads threads that hold a Worker each
RunThreads == 2
RunVals == 4
RunLoads == 2
\* SpecPush: the same threads after the first swap of thread 1
PushVals == 5
PushLoads == 1
\* SpecFair: Spec with fewer Workers dropped
FairDrops == 1
\* SpecLeak: clients that load only and may leak a guard
LeakLoads == 2
LeakDrops == 2

Max(a, b) == IF a > b THEN a ELSE b
Threads == 1..Max(NThreads, RunThreads)
\* the threads of SpecRun
RunSet == 1..RunThreads
Null == 0
Sentinel == -1
InitVal == 1

VARIABLES
    epoch,      \* EPOCH.counter
    head,       \* EPOCH.registrations.head
    rnext,      \* Registration.next
    rcounter,   \* Registration.counter
    ractive,    \* Registration.active
    nregs,      \* number of Registration nodes allocated so far
    ptr,        \* the shared AtomicPtr<T>
    nvals,      \* number of values boxed so far (the initial one included)
    nloads,     \* number of load calls so far
    ndrops,     \* number of Workers dropped so far
    pc,         \* position of every thread
    op,         \* the call try_advance returns to: "load" or "swap"
    w,          \* Worker.reg of the Worker the thread holds, or Null
    node,       \* create_register: boxed
    cur,        \* find_register / try_advance: current
    count,      \* try_advance: count, then load / swap: count
    current,    \* swap: current
    boxed,      \* swap: boxed
    guards,     \* the live Res of the thread: the sequence of their ptr
    recent,     \* RECENT
    previous,   \* PREVIOUS
    destroyed,  \* how often Reclaim::reclaim ran on each value
    creator,    \* the thread whose create_register published each node
    retired,    \* EPOCH.counter when a swap displaced each value, -1 before
    last,       \* the Registration a thread released and nobody claimed since
    lim         \* the calls the client program makes at most

vars == <<epoch, head, rnext, rcounter, ractive, nregs, ptr, nvals, nloads, ndrops, pc, op, w,
          node, cur, count, current, boxed, guards, recent, previous,
          destroyed, creator, retired, last, lim>>

shared == <<epoch, head, rnext, rcounter, ractive, nregs, ptr, nvals>>
calls == <<nloads, ndrops, lim>>
hist == <<creator, retired, last>>
locals == <<op, w, node, cur, count, current, boxed>>
lists == <<recent, previous, destroyed>>

Regs == 1..Max(MaxRegs, RunThreads)
\* every thread whose swap has started boxes its value: the last value is
\* boxed by a swap that started before the budget was spent
Vals == 1..(Max(Max(MaxVals, RunVals), PushVals) + Max(NThreads, RunThreads) - 1)

\* List::new
ListNew == [stamp |-> -1, elements |-> <<>>]

\* ListEntry::new: no entry for a null pointer
ListEntryNew(value) == IF value # Null THEN <<value>> ELSE <<>>

Init ==
    /\ epoch = 0
    /\ head = Null
    /\ rnext = [r \in Regs |-> Null]
    /\ rcounter = [r \in Regs |-> Sentinel]
    /\ ractive = [r \in Regs |-> FALSE]
    /\ nregs = 0
    /\ ptr = InitVal
    /\ nvals = 1
    /\ nloads = 0
    /\ ndrops = 0
    /\ pc = [t \in Threads |-> "idle"]
    /\ op = [t \in Threads |-> "none"]
    /\ w = [t \in Threads |-> Null]
    /\ node = [t \in Threads |-> Null]
    /\ cur = [t \in Threads |-> Null]
    /\ count = [t \in Threads |-> 0]
    /\ current = [t \in Threads |-> Null]
    /\ boxed = [t \in Threads |-> Null]
    /\ guards = [t \in Threads |-> <<>>]
    /\ recent = [t \in Threads |-> ListNew]
    /\ previous = [t \in Threads |-> ListNew]
    /\ destroyed = [v \in Vals |-> 0]
    /\ creator = [r \in Regs |-> Null]
    /\ retired = [v \in Vals |-> -1]
    /\ last = [t \in Threads |-> Null]
    /\ lim = [regs |-> MaxRegs, vals |-> MaxVals, loads |-> MaxLoads, drops |-> MaxDrops]

\* ------------------------------------------------ Registration::find_register
\* FindStart with the scan begun behind the head.
FindStartSkipsHead(t) ==
    /\ pc[t] = "idle"
    /\ head # Null
    /\ cur' = [cur EXCEPT ![t] = rnext[head]]
    /\ pc' = [pc EXCEPT ![t] = IF rnext[head] = Null THEN "idle" ELSE "fr_cas"]
    /\ UNCHANGED <<calls, shared, op, w, node, count, current, boxed, guards, lists, hist>>

\* let mut current = head.load(Acquire)
FindStart(t) ==
    /\ pc[t] = "idle"
    /\ cur' = [cur EXCEPT ![t] = head]
    /\ pc' = [pc EXCEPT ![t] = IF head = Null THEN "idle" ELSE "fr_cas"]
    /\ UNCHANGED <<calls, shared, op, w, node, count, current, boxed, guards, lists, hist>>

\* FindClaim with a plain store in place of the compare_exchange.
FindClaimStore(t) ==
    /\ pc[t] = "fr_cas"
    /\ ractive' = [ractive EXCEPT ![cur[t]] = FALSE]
    /\ last' = [u \in Threads |-> IF u # t /\ last[u] = cur[t] THEN Null ELSE last[u]]
    /\ pc' = [pc EXCEPT ![t] = "fr_set"]
    /\ UNCHANGED <<calls, epoch, head, rnext, rcounter, nregs, ptr, nvals, locals, guards, lists,
                   creator, retired>>

\* active.compare_exchange(true, false) succeeds
FindClaim(t) ==
    /\ pc[t] = "fr_cas"
    /\ ractive[cur[t]]
    /\ ractive' = [ractive EXCEPT ![cur[t]] = FALSE]
    /\ last' = [u \in Threads |-> IF u # t /\ last[u] = cur[t] THEN Null ELSE last[u]]
    /\ pc' = [pc EXCEPT ![t] = "fr_set"]
    /\ UNCHANGED <<calls, epoch, head, rnext, rcounter, nregs, ptr, nvals, locals, guards, lists, creator, retired>>

\* the compare_exchange fails: current = deref.next.load(Acquire); None at the end
FindNext(t) ==
    /\ pc[t] = "fr_cas"
    /\ ~ractive[cur[t]]
    /\ cur' = [cur EXCEPT ![t] = rnext[cur[t]]]
    /\ pc' = [pc EXCEPT ![t] = IF rnext[cur[t]] = Null THEN "idle" ELSE "fr_cas"]
    /\ UNCHANGED <<calls, shared, op, w, node, count, current, boxed, guards, lists, hist>>

\* deref.counter.set(-1); Some(Worker { reg: deref })
FindSet(t) ==
    /\ pc[t] = "fr_set"
    /\ rcounter' = [rcounter EXCEPT ![cur[t]] = Sentinel]
    /\ w' = [w EXCEPT ![t] = cur[t]]
    /\ last' = [last EXCEPT ![t] = Null]
    /\ cur' = [cur EXCEPT ![t] = Null]
    /\ pc' = [pc EXCEPT ![t] = "ready"]
    /\ UNCHANGED <<calls, epoch, head, rnext, ractive, nregs, ptr, nvals, op, node, count,
                   current, boxed, guards, lists, creator, retired>>

\* ---------------------------------------------- Registration::create_register
\* A node that lost the race on head is freed and the next one is built in
\* its place: no other thread ever saw it.
CreateBuild(t) ==
    /\ pc[t] \in {"idle", "cr_retry"}
    /\ IF pc[t] = "idle"
       THEN /\ nregs < lim.regs
            /\ nregs' = nregs + 1
            /\ node' = [node EXCEPT ![t] = nregs + 1]
       ELSE UNCHANGED <<calls, nregs, node>>
    /\ rnext' = [rnext EXCEPT ![node'[t]] = head]
    /\ rcounter' = [rcounter EXCEPT ![node'[t]] = Sentinel]
    /\ ractive' = [ractive EXCEPT ![node'[t]] = FALSE]
    /\ pc' = [pc EXCEPT ![t] = "cr_cas"]
    /\ UNCHANGED <<calls, epoch, head, ptr, nvals, op, w, cur, count, current, boxed,
                   guards, lists, hist>>

\* CreatePublish with a plain store in place of the compare_exchange.
CreatePublishStore(t) ==
    /\ pc[t] = "cr_cas"
    /\ head' = node[t]
    /\ w' = [w EXCEPT ![t] = node[t]]
    /\ creator' = [creator EXCEPT ![node[t]] = t]
    /\ last' = [last EXCEPT ![t] = Null]
    /\ node' = [node EXCEPT ![t] = Null]
    /\ pc' = [pc EXCEPT ![t] = "ready"]
    /\ UNCHANGED <<calls, epoch, rnext, rcounter, ractive, nregs, ptr, nvals, op, cur, count,
                   current, boxed, guards, lists, retired>>

\* head.compare_exchange(current, boxed) succeeds
CreatePublish(t) ==
    /\ pc[t] = "cr_cas"
    /\ head = rnext[node[t]]
    /\ head' = node[t]
    /\ w' = [w EXCEPT ![t] = node[t]]
    /\ creator' = [creator EXCEPT ![node[t]] = t]
    /\ last' = [last EXCEPT ![t] = Null]
    /\ node' = [node EXCEPT ![t] = Null]
    /\ pc' = [pc EXCEPT ![t] = "ready"]
    /\ UNCHANGED <<calls, epoch, rnext, rcounter, ractive, nregs, ptr, nvals, op, cur, count,
                   current, boxed, guards, lists, retired>>

\* the compare_exchange fails: Box::from_raw(boxed), loop
CreateLost(t) ==
    /\ pc[t] = "cr_cas"
    /\ head # rnext[node[t]]
    /\ pc' = [pc EXCEPT ![t] = "cr_retry"]
    /\ UNCHANGED <<calls, shared, locals, guards, lists, hist>>

\* ------------------------------------------------------------ Drop for Worker
\* The borrow checker lets a Worker go only when no Res borrows it.
WorkerDrop(t) ==
    /\ pc[t] = "ready"
    /\ guards[t] = <<>>
    /\ ndrops < lim.drops
    /\ ndrops' = ndrops + 1
    /\ ractive' = [ractive EXCEPT ![w[t]] = TRUE]
    /\ last' = [last EXCEPT ![t] = w[t]]
    /\ w' = [w EXCEPT ![t] = Null]
    /\ pc' = [pc EXCEPT ![t] = "idle"]
    /\ UNCHANGED <<nloads, lim, epoch, head, rnext, rcounter, nregs, ptr, nvals, op, node, cur, count,
                   current, boxed, guards, lists, creator, retired>>

\* -------------------------------------------------------- Worker::try_advance
\* let count = EPOCH.counter.load(Relaxed)
AdvanceCount(t) ==
    /\ pc[t] = "ta_count"
    /\ count' = [count EXCEPT ![t] = epoch]
    /\ pc' = [pc EXCEPT ![t] = "ta_head"]
    /\ UNCHANGED <<calls, shared, op, w, node, cur, current, boxed, guards, lists, hist>>

\* let mut current = EPOCH.registrations.head.load(Acquire)
AdvanceHead(t) ==
    /\ pc[t] = "ta_head"
    /\ cur' = [cur EXCEPT ![t] = head]
    /\ pc' = [pc EXCEPT ![t] = IF head = Null THEN "ta_cas" ELSE "ta_scan"]
    /\ UNCHANGED <<calls, shared, op, w, node, count, current, boxed, guards, lists, hist>>

\* reg_counter < 0 || reg_counter == count: current = reg.next.load(Acquire)
AdvanceScanPass(t) ==
    /\ pc[t] = "ta_scan"
    /\ rcounter[cur[t]] < 0 \/ rcounter[cur[t]] = count[t]
    /\ cur' = [cur EXCEPT ![t] = rnext[cur[t]]]
    /\ pc' = [pc EXCEPT ![t] = IF rnext[cur[t]] = Null THEN "ta_cas" ELSE "ta_scan"]
    /\ UNCHANGED <<calls, shared, op, w, node, count, current, boxed, guards, lists, hist>>

\* AdvanceScanBlocked returning count + 1 in place of count.
AdvanceScanBlockedNext(t) ==
    /\ pc[t] = "ta_scan"
    /\ ~(rcounter[cur[t]] < 0 \/ rcounter[cur[t]] = count[t])
    /\ count' = [count EXCEPT ![t] = count[t] + 1]
    /\ cur' = [cur EXCEPT ![t] = Null]
    /\ pc' = [pc EXCEPT ![t] = "announce"]
    /\ UNCHANGED <<calls, shared, op, w, node, current, boxed, guards, lists, hist>>

\* AdvanceScanBlocked going on to the compare_exchange in place of returning.
AdvanceScanBlockedAdvances(t) ==
    /\ pc[t] = "ta_scan"
    /\ ~(rcounter[cur[t]] < 0 \/ rcounter[cur[t]] = count[t])
    /\ cur' = [cur EXCEPT ![t] = Null]
    /\ pc' = [pc EXCEPT ![t] = "ta_cas"]
    /\ UNCHANGED <<calls, shared, op, w, node, count, current, boxed, guards, lists, hist>>

\* otherwise: return count
AdvanceScanBlocked(t) ==
    /\ pc[t] = "ta_scan"
    /\ ~(rcounter[cur[t]] < 0 \/ rcounter[cur[t]] = count[t])
    /\ cur' = [cur EXCEPT ![t] = Null]
    /\ pc' = [pc EXCEPT ![t] = "announce"]
    /\ UNCHANGED <<calls, shared, op, w, node, count, current, boxed, guards, lists, hist>>

\* AdvanceCas with a fetch_add in place of the compare_exchange.
AdvanceFetchAdd(t) ==
    /\ pc[t] = "ta_cas"
    /\ epoch' = epoch + 1
    /\ count' = [count EXCEPT ![t] = count[t] + 1]
    /\ cur' = [cur EXCEPT ![t] = Null]
    /\ pc' = [pc EXCEPT ![t] = "announce"]
    /\ UNCHANGED <<calls, head, rnext, rcounter, ractive, nregs, ptr, nvals, op, w, node,
                   current, boxed, guards, lists, hist>>

\* AdvanceCas returning count in place of count + 1.
AdvanceCasReturnsCount(t) ==
    /\ pc[t] = "ta_cas"
    /\ epoch' = IF epoch = count[t] THEN count[t] + 1 ELSE epoch
    /\ cur' = [cur EXCEPT ![t] = Null]
    /\ pc' = [pc EXCEPT ![t] = "announce"]
    /\ UNCHANGED <<calls, head, rnext, rcounter, ractive, nregs, ptr, nvals, op, w, node,
                   count, current, boxed, guards, lists, hist>>

\* EPOCH.counter.compare_exchange(count, count + 1), its result ignored;
\* return count + 1
AdvanceCas(t) ==
    /\ pc[t] = "ta_cas"
    /\ epoch' = IF epoch = count[t] THEN count[t] + 1 ELSE epoch
    /\ count' = [count EXCEPT ![t] = count[t] + 1]
    /\ cur' = [cur EXCEPT ![t] = Null]
    /\ pc' = [pc EXCEPT ![t] = "announce"]
    /\ UNCHANGED <<calls, head, rnext, rcounter, ractive, nregs, ptr, nvals, op, w, node,
                   current, boxed, guards, lists, hist>>

\* --------------------------------------------------------------- Worker::load
\* let count = Self::try_advance()
LoadStart(t) ==
    /\ pc[t] = "ready"
    /\ Len(guards[t]) < MaxGuards
    /\ nloads < lim.loads
    /\ nloads' = nloads + 1
    /\ op' = [op EXCEPT ![t] = "load"]
    /\ pc' = [pc EXCEPT ![t] = "ta_count"]
    /\ UNCHANGED <<ndrops, lim, shared, w, node, cur, count, current, boxed, guards, lists, hist>>

\* self.reg.counter.set(count as isize), in load and in swap; swap then boxes new
Announce(t) ==
    /\ pc[t] = "announce"
    /\ rcounter' = [rcounter EXCEPT ![w[t]] = count[t]]
    /\ IF op[t] = "swap"
       THEN /\ nvals' = nvals + 1
            /\ boxed' = [boxed EXCEPT ![t] = nvals + 1]
            /\ pc' = [pc EXCEPT ![t] = "sw_load"]
       ELSE /\ UNCHANGED <<calls, nvals, boxed>>
            /\ pc' = [pc EXCEPT ![t] = "ld_ptr"]
    /\ UNCHANGED <<calls, epoch, head, rnext, ractive, nregs, ptr, op, w, node, cur, count,
                   current, guards, lists, hist>>

\* let pointer = ptr.load(Acquire); Res { worker: self, ptr: pointer }
LoadPtr(t) ==
    /\ pc[t] = "ld_ptr"
    /\ guards' = [guards EXCEPT ![t] = Append(guards[t], ptr)]
    /\ op' = [op EXCEPT ![t] = "none"]
    /\ count' = [count EXCEPT ![t] = 0]
    /\ pc' = [pc EXCEPT ![t] = "ready"]
    /\ UNCHANGED <<calls, shared, w, node, cur, current, boxed, lists, hist>>

\* --------------------------------------------------------------- Drop for Res
\* self.worker.reg.counter.set(-1)
ResDrop(t) ==
    /\ pc[t] = "ready"
    /\ \E i \in 1..Len(guards[t]) :
          guards' = [guards EXCEPT ![t] =
                        SubSeq(guards[t], 1, i - 1) \o SubSeq(guards[t], i + 1, Len(guards[t]))]
    /\ rcounter' = [rcounter EXCEPT ![w[t]] = Sentinel]
    /\ UNCHANGED <<calls, epoch, head, rnext, ractive, nregs, ptr, nvals, pc, locals, lists, hist>>

\* mem::forget(res): the guard is gone, its borrow of the Worker ends and
\* Drop for Res does not run
ResForget(t) ==
    /\ pc[t] = "ready"
    /\ \E i \in 1..Len(guards[t]) :
          guards' = [guards EXCEPT ![t] =
                        SubSeq(guards[t], 1, i - 1) \o SubSeq(guards[t], i + 1, Len(guards[t]))]
    /\ UNCHANGED <<calls, shared, pc, locals, lists, hist>>

\* --------------------------------------------------------------- Worker::swap
\* let count = Self::try_advance()
SwapStart(t) ==
    /\ pc[t] = "ready"
    /\ nvals < lim.vals
    /\ op' = [op EXCEPT ![t] = "swap"]
    /\ pc' = [pc EXCEPT ![t] = "ta_count"]
    /\ UNCHANGED <<calls, shared, w, node, cur, count, current, boxed, guards, lists, hist>>

\* current = ptr.load(Acquire), before the loop and after a failed compare_exchange
SwapLoad(t) ==
    /\ pc[t] = "sw_load"
    /\ current' = [current EXCEPT ![t] = ptr]
    /\ pc' = [pc EXCEPT ![t] = "sw_cas"]
    /\ UNCHANGED <<calls, shared, op, w, node, cur, count, boxed, guards, lists, hist>>

\* SwapCasFail retrying the compare_exchange without loading ptr again.
SwapCasFailNoReload(t) ==
    /\ pc[t] = "sw_cas"
    /\ ptr # current[t]
    /\ pc' = [pc EXCEPT ![t] = "sw_cas"]
    /\ UNCHANGED <<calls, shared, locals, guards, lists, hist>>

\* ptr.compare_exchange(current, boxed) fails
SwapCasFail(t) ==
    /\ pc[t] = "sw_cas"
    /\ ptr # current[t]
    /\ pc' = [pc EXCEPT ![t] = "sw_load"]
    /\ UNCHANGED <<calls, shared, locals, guards, lists, hist>>

\* SwapCasRotate with a plain store in place of the compare_exchange.
SwapStoreRotate(t) ==
    /\ pc[t] = "sw_cas"
    /\ recent[t].stamp < count[t]
    /\ ptr' = boxed[t]
    /\ retired' = [v \in Vals |-> IF v = current[t] THEN epoch ELSE retired[v]]
    /\ pc' = [pc EXCEPT ![t] = "sw_rearrange"]
    /\ UNCHANGED <<calls, epoch, head, rnext, rcounter, ractive, nregs, nvals, locals, guards,
                   lists, creator, last>>

\* the compare_exchange succeeds and RECENT's stamp is older than count:
\* rearrange is due
SwapCasRotate(t) ==
    /\ pc[t] = "sw_cas"
    /\ ptr = current[t]
    /\ recent[t].stamp < count[t]
    /\ ptr' = boxed[t]
    /\ retired' = [v \in Vals |-> IF v = current[t] THEN epoch ELSE retired[v]]
    /\ pc' = [pc EXCEPT ![t] = "sw_rearrange"]
    /\ UNCHANGED <<calls, epoch, head, rnext, rcounter, ractive, nregs, nvals, locals, guards,
                   lists, creator, last>>

\* SwapCasPush retiring the pointer it installed in place of the one it
\* displaced.
SwapCasPushNew(t) ==
    /\ pc[t] = "sw_cas"
    /\ ptr = current[t]
    /\ ~(recent[t].stamp < count[t])
    /\ ptr' = boxed[t]
    /\ retired' = [v \in Vals |-> IF v = boxed[t] THEN epoch ELSE retired[v]]
    /\ recent' = [recent EXCEPT ![t].elements = @ \o ListEntryNew(boxed[t])]
    /\ pc' = [pc EXCEPT ![t] = "sw_reset"]
    /\ UNCHANGED <<calls, epoch, head, rnext, rcounter, ractive, nregs, nvals, locals, guards,
                   previous, destroyed, creator, last>>

\* the compare_exchange succeeds and the entry is pushed onto RECENT
SwapCasPush(t) ==
    /\ pc[t] = "sw_cas"
    /\ ptr = current[t]
    /\ ~(recent[t].stamp < count[t])
    /\ ptr' = boxed[t]
    /\ retired' = [v \in Vals |-> IF v = current[t] THEN epoch ELSE retired[v]]
    /\ recent' = [recent EXCEPT ![t].elements = @ \o ListEntryNew(current[t])]
    /\ pc' = [pc EXCEPT ![t] = "sw_reset"]
    /\ UNCHANGED <<calls, epoch, head, rnext, rcounter, ractive, nregs, nvals, locals, guards,
                   previous, destroyed, creator, last>>

\* the values a rearrange reclaims: the elements of PREVIOUS
Reclaimed(t) == previous[t].elements

\* Rearrange stamping the buffers with the announced epoch in place of the
\* counter it reads.
RearrangeAnnounced(t) ==
    /\ pc[t] = "sw_rearrange"
    /\ recent' = [recent EXCEPT ![t] = [stamp |-> count[t], elements |-> ListEntryNew(current[t])]]
    /\ previous' = [previous EXCEPT ![t] = [stamp |-> count[t] - 1, elements |-> recent[t].elements]]
    /\ destroyed' = [v \in Vals |->
                        destroyed[v] + Cardinality({i \in 1..Len(Reclaimed(t)) : Reclaimed(t)[i] = v})]
    /\ pc' = [pc EXCEPT ![t] = "sw_reset"]
    /\ UNCHANGED <<calls, shared, locals, guards, hist>>

\* Rearrange reclaiming the entries of RECENT in place of those of PREVIOUS.
RearrangeReclaimsRecent(t) ==
    /\ pc[t] = "sw_rearrange"
    /\ recent' = [recent EXCEPT ![t] = [stamp |-> epoch, elements |-> ListEntryNew(current[t])]]
    /\ previous' = [previous EXCEPT ![t] = [stamp |-> epoch - 1, elements |-> previous[t].elements]]
    /\ destroyed' = [v \in Vals |->
                        destroyed[v] + Cardinality({i \in 1..Len(recent[t].elements) :
                                                       recent[t].elements[i] = v})]
    /\ pc' = [pc EXCEPT ![t] = "sw_reset"]
    /\ UNCHANGED <<calls, shared, locals, guards, hist>>

\* Worker::rearrange(current, deleter)
Rearrange(t) ==
    /\ pc[t] = "sw_rearrange"
    /\ recent' = [recent EXCEPT ![t] = [stamp |-> epoch, elements |-> ListEntryNew(current[t])]]
    /\ previous' = [previous EXCEPT ![t] = [stamp |-> epoch - 1, elements |-> recent[t].elements]]
    /\ destroyed' = [v \in Vals |->
                        destroyed[v] + Cardinality({i \in 1..Len(Reclaimed(t)) : Reclaimed(t)[i] = v})]
    /\ pc' = [pc EXCEPT ![t] = "sw_reset"]
    /\ UNCHANGED <<calls, shared, locals, guards, hist>>

\* self.reg.counter.set(-1); return
SwapReset(t) ==
    /\ pc[t] = "sw_reset"
    /\ rcounter' = [rcounter EXCEPT ![w[t]] = Sentinel]
    /\ op' = [op EXCEPT ![t] = "none"]
    /\ current' = [current EXCEPT ![t] = Null]
    /\ boxed' = [boxed EXCEPT ![t] = Null]
    /\ count' = [count EXCEPT ![t] = 0]
    /\ pc' = [pc EXCEPT ![t] = "ready"]
    /\ UNCHANGED <<calls, epoch, head, rnext, ractive, nregs, ptr, nvals, w, node, cur,
                   guards, lists, hist>>

Next == \E t \in 1..NThreads :
    \/ FindStart(t)
    \/ FindClaim(t)
    \/ FindNext(t)
    \/ FindSet(t)
    \/ CreateBuild(t)
    \/ CreatePublish(t)
    \/ CreateLost(t)
    \/ WorkerDrop(t)
    \/ AdvanceCount(t)
    \/ AdvanceHead(t)
    \/ AdvanceScanPass(t)
    \/ AdvanceScanBlocked(t)
    \/ AdvanceCas(t)
    \/ LoadStart(t)
    \/ Announce(t)
    \/ LoadPtr(t)
    \/ ResDrop(t)
    \/ SwapStart(t)
    \/ SwapLoad(t)
    \/ SwapCasFail(t)
    \/ SwapCasRotate(t)
    \/ SwapCasPush(t)
    \/ Rearrange(t)
    \/ SwapReset(t)

Spec == Init /\ [][Next]_vars

\* The steps of thread t.
Step(t) ==
    \/ FindStart(t) \/ FindClaim(t) \/ FindNext(t) \/ FindSet(t)
    \/ CreateBuild(t) \/ CreatePublish(t) \/ CreateLost(t)
    \/ WorkerDrop(t)
    \/ AdvanceCount(t) \/ AdvanceHead(t) \/ AdvanceScanPass(t) \/ AdvanceScanBlocked(t)
    \/ AdvanceCas(t)
    \/ LoadStart(t) \/ Announce(t) \/ LoadPtr(t)
    \/ ResDrop(t)
    \/ SwapStart(t) \/ SwapLoad(t) \/ SwapCasFail(t) \/ SwapCasRotate(t) \/ SwapCasPush(t)
    \/ Rearrange(t) \/ SwapReset(t)

\* Init with the budget of SpecFair.
InitFair ==
    /\ epoch = 0
    /\ head = Null
    /\ rnext = [r \in Regs |-> Null]
    /\ rcounter = [r \in Regs |-> Sentinel]
    /\ ractive = [r \in Regs |-> FALSE]
    /\ nregs = 0
    /\ ptr = InitVal
    /\ nvals = 1
    /\ nloads = 0
    /\ ndrops = 0
    /\ pc = [t \in Threads |-> "idle"]
    /\ op = [t \in Threads |-> "none"]
    /\ w = [t \in Threads |-> Null]
    /\ node = [t \in Threads |-> Null]
    /\ cur = [t \in Threads |-> Null]
    /\ count = [t \in Threads |-> 0]
    /\ current = [t \in Threads |-> Null]
    /\ boxed = [t \in Threads |-> Null]
    /\ guards = [t \in Threads |-> <<>>]
    /\ recent = [t \in Threads |-> ListNew]
    /\ previous = [t \in Threads |-> ListNew]
    /\ destroyed = [v \in Vals |-> 0]
    /\ creator = [r \in Regs |-> Null]
    /\ retired = [v \in Vals |-> -1]
    /\ last = [t \in Threads |-> Null]
    /\ lim = [regs |-> MaxRegs, vals |-> MaxVals, loads |-> MaxLoads, drops |-> FairDrops]

\* The whole interface with threads that run freely: a thread that can take
\* a step is not held back forever.
SpecFair == InitFair /\ [][Next]_vars /\ \A t \in 1..NThreads : WF_vars(Step(t))

\* Every thread of RunSet has called create_register, one after the other,
\* and holds the Worker it got; the other threads never start.
InitRun ==
    /\ epoch = 0
    /\ head = RunThreads
    /\ rnext = [r \in Regs |-> IF r \in RunSet THEN r - 1 ELSE Null]
    /\ rcounter = [r \in Regs |-> Sentinel]
    /\ ractive = [r \in Regs |-> FALSE]
    /\ nregs = RunThreads
    /\ ptr = InitVal
    /\ nvals = 1
    /\ nloads = 0
    /\ ndrops = 0
    /\ pc = [t \in Threads |-> IF t \in RunSet THEN "ready" ELSE "idle"]
    /\ op = [t \in Threads |-> "none"]
    /\ w = [t \in Threads |-> IF t \in RunSet THEN t ELSE Null]
    /\ node = [t \in Threads |-> Null]
    /\ cur = [t \in Threads |-> Null]
    /\ count = [t \in Threads |-> 0]
    /\ current = [t \in Threads |-> Null]
    /\ boxed = [t \in Threads |-> Null]
    /\ guards = [t \in Threads |-> <<>>]
    /\ recent = [t \in Threads |-> ListNew]
    /\ previous = [t \in Threads |-> ListNew]
    /\ destroyed = [v \in Vals |-> 0]
    /\ creator = [r \in Regs |-> IF r \in RunSet THEN r ELSE Null]
    /\ retired = [v \in Vals |-> -1]
    /\ last = [t \in Threads |-> Null]
    /\ lim = [regs |-> RunThreads, vals |-> RunVals, loads |-> RunLoads, drops |-> 0]

NextRun == \E t \in RunSet :
    \/ AdvanceCount(t)
    \/ AdvanceHead(t)
    \/ AdvanceScanPass(t)
    \/ AdvanceScanBlocked(t)
    \/ AdvanceCas(t)
    \/ LoadStart(t)
    \/ Announce(t)
    \/ LoadPtr(t)
    \/ ResDrop(t)
    \/ SwapStart(t)
    \/ SwapLoad(t)
    \/ SwapCasFail(t)
    \/ SwapCasRotate(t)
    \/ SwapCasPush(t)
    \/ Rearrange(t)
    \/ SwapReset(t)

SpecRun == InitRun /\ [][NextRun]_vars

\* The state of InitRun after thread 1, running alone, has completed one
\* swap: the counter went from 0 to 1, the swap installed value 2 and its
\* rearrange (RECENT's stamp was -1) put InitVal into RECENT at stamp 1.
InitPush ==
    /\ epoch = 1
    /\ head = RunThreads
    /\ rnext = [r \in Regs |-> IF r \in RunSet THEN r - 1 ELSE Null]
    /\ rcounter = [r \in Regs |-> Sentinel]
    /\ ractive = [r \in Regs |-> FALSE]
    /\ nregs = RunThreads
    /\ ptr = InitVal + 1
    /\ nvals = 2
    /\ nloads = 0
    /\ ndrops = 0
    /\ pc = [t \in Threads |-> IF t \in RunSet THEN "ready" ELSE "idle"]
    /\ op = [t \in Threads |-> "none"]
    /\ w = [t \in Threads |-> IF t \in RunSet THEN t ELSE Null]
    /\ node = [t \in Threads |-> Null]
    /\ cur = [t \in Threads |-> Null]
    /\ count = [t \in Threads |-> 0]
    /\ current = [t \in Threads |-> Null]
    /\ boxed = [t \in Threads |-> Null]
    /\ guards = [t \in Threads |-> <<>>]
    /\ recent = [t \in Threads |->
                   IF t = 1 THEN [stamp |-> 1, elements |-> <<InitVal>>] ELSE ListNew]
    /\ previous = [t \in Threads |->
                     IF t = 1 THEN [stamp |-> 0, elements |-> <<>>] ELSE ListNew]
    /\ destroyed = [v \in Vals |-> 0]
    /\ creator = [r \in Regs |-> IF r \in RunSet THEN r ELSE Null]
    /\ retired = [v \in Vals |-> IF v = InitVal THEN 1 ELSE -1]
    /\ last = [t \in Threads |-> Null]
    /\ lim = [regs |-> RunThreads, vals |-> PushVals, loads |-> PushLoads, drops |-> 0]

SpecPush == InitPush /\ [][NextRun]_vars

\* Init with the budget of SpecLeak: no value is boxed, so no swap starts.
InitLeak ==
    /\ epoch = 0
    /\ head = Null
    /\ rnext = [r \in Regs |-> Null]
    /\ rcounter = [r \in Regs |-> Sentinel]
    /\ ractive = [r \in Regs |-> FALSE]
    /\ nregs = 0
    /\ ptr = InitVal
    /\ nvals = 1
    /\ nloads = 0
    /\ ndrops = 0
    /\ pc = [t \in Threads |-> "idle"]
    /\ op = [t \in Threads |-> "none"]
    /\ w = [t \in Threads |-> Null]
    /\ node = [t \in Threads |-> Null]
    /\ cur = [t \in Threads |-> Null]
    /\ count = [t \in Threads |-> 0]
    /\ current = [t \in Threads |-> Null]
    /\ boxed = [t \in Threads |-> Null]
    /\ guards = [t \in Threads |-> <<>>]
    /\ recent = [t \in Threads |-> ListNew]
    /\ previous = [t \in Threads |-> ListNew]
    /\ destroyed = [v \in Vals |-> 0]
    /\ creator = [r \in Regs |-> Null]
    /\ retired = [v \in Vals |-> -1]
    /\ last = [t \in Threads |-> Null]
    /\ lim = [regs |-> MaxRegs, vals |-> 1, loads |-> LeakLoads, drops |-> LeakDrops]

NextLeak == \E t \in 1..NThreads :
    \/ FindStart(t)
    \/ FindClaim(t)
    \/ FindNext(t)
    \/ FindSet(t)
    \/ CreateBuild(t)
    \/ CreatePublish(t)
    \/ CreateLost(t)
    \/ WorkerDrop(t)
    \/ AdvanceCount(t)
    \/ AdvanceHead(t)
    \/ AdvanceScanPass(t)
    \/ AdvanceScanBlocked(t)
    \/ AdvanceCas(t)
    \/ LoadStart(t)
    \/ Announce(t)
    \/ LoadPtr(t)
    \/ ResDrop(t)
    \/ ResForget(t)

\* Clients that acquire and release Workers and load, and that let go of a
\* guard by dropping it or by mem::forget.
SpecLeak == InitLeak /\ [][NextLeak]_vars

\* ------------------------------------------------------------------ claims
\* The threads that hold Registration r: through a Worker, or in
\* find_register between the compare_exchange that claimed r and the return.
Holders(r) == {t \in Threads : w[t] = r \/ (pc[t] = "fr_set" /\ cur[t] = r)}

\* The values a swap has displaced from the shared pointer.
Displaced == {v \in Vals : retired[v] >= 0}

\* The entries a thread holds for later reclamation, oldest first.
Buffered(t) == previous[t].elements \o recent[t].elements

\* Registration a is nearer the head of the list than Registration b.
RECURSIVE Reaches(_, _)
Reaches(a, b) == IF a = Null THEN FALSE
                 ELSE IF rnext[a] = b THEN TRUE ELSE Reaches(rnext[a], b)

\* The span in which a Worker's local_epoch is to be set: a guard of it is
\* alive, its load has announced and is about to return the guard, or its
\* swap has announced and not yet returned.
InCritical(t) ==
    \/ guards[t] # <<>>
    \/ pc[t] \in {"ld_ptr", "sw_load", "sw_cas", "sw_rearrange", "sw_reset"}

\* C1: a value a load returned is not destroyed while the guard of that load
\* is alive.
C1_NoPrematureReclaim ==
    \A t \in Threads : \A i \in 1..Len(guards[t]) : destroyed[guards[t][i]] = 0

\* C2: the global epoch is at most e + 1 for every Registration whose
\* local_epoch is a non-sentinel e.
C2_AdvancementSafety ==
    \A r \in Regs : rcounter[r] # Sentinel => epoch <= rcounter[r] + 1

\* C3: at most one thread holds a given Registration at any time, and a
\* Registration whose active flag says free is held by nobody.
C3_PoolExclusive ==
    \A r \in Regs :
        /\ Cardinality(Holders(r)) <= 1
        /\ ractive[r] => Holders(r) = {}

\* a Registration released by the thread that created it is held by another
\* thread, which got it from find_register
C3_Witness ==
    \E r \in Regs : \E t \in Threads : w[t] = r /\ creator[r] \notin {Null, t}

\* C4: the global epoch starts at 0 and every change of it is an increase by
\* exactly 1, made by the compare_exchange of a try_advance whose count is the
\* current value: of two calls that pass the scan with the same count only
\* one advances the counter.
C4_MonotonicEpoch ==
    /\ epoch = 0
    /\ [][epoch' # epoch =>
            /\ epoch' = epoch + 1
            /\ \E t \in Threads : pc[t] = "ta_cas" /\ count[t] = epoch /\ pc'[t] = "announce"]_vars

\* two calls passed the scan with the same count, both returned count + 1 and
\* the counter advanced once
C4_Witness ==
    \E t1, t2 \in Threads :
        /\ t1 # t2
        /\ pc[t1] = "announce" /\ pc[t2] = "announce"
        /\ count[t1] = epoch /\ count[t2] = epoch
        /\ epoch = 1
        /\ \A r \in Regs : rcounter[r] = Sentinel

\* C5: once every thread has released its Worker, every value a swap
\* displaced has been destroyed exactly once.
C5_FullAccounting ==
    (\A t \in Threads : pc[t] = "idle") => \A v \in Displaced : destroyed[v] = 1

C7_GuardSpan ==
    \A t \in Threads :
        w[t] # Null => (InCritical(t) <=> rcounter[w[t]] # Sentinel)

\* C8: the value a load returns is the one installed when the load reads the
\* pointer: no swap has displaced it by then, so it is not a value displaced
\* by a swap that completed before the load started.
C8_LoadFresh ==
    [][\A t \in Threads :
          (pc[t] = "ld_ptr" /\ pc'[t] = "ready") =>
             /\ Len(guards'[t]) = Len(guards[t]) + 1
             /\ guards'[t][Len(guards'[t])] \notin Displaced
             /\ guards'[t][Len(guards'[t])] \in 1..nvals]_vars

\* a load made after a swap displaced the initial value holds the value that
\* swap installed
C8_Witness ==
    \E t \in Threads :
        /\ Len(guards[t]) = 1
        /\ guards[t][1] = 2
        /\ retired[InitVal] >= 0
        /\ ptr = 2

\* C9: a thread that released Registration r and scans again, with no other
\* thread having claimed r since, gets r itself; the scan does not end
\* empty-handed (so nothing is allocated), and the slot's local_epoch is the
\* sentinel when the Worker is returned.
C9_SlotReuse ==
    [][\A t \in Threads :
          /\ (last[t] # Null /\ pc[t] = "fr_cas" /\ pc'[t] = "fr_set") => cur[t] = last[t]
          /\ (last[t] # Null /\ pc[t] = "fr_cas") => pc'[t] # "idle"
          /\ (pc[t] = "fr_set" /\ pc'[t] = "ready") => rcounter'[w'[t]] = Sentinel]_vars

\* C9 as amended: the scan returns the first free Registration from the head,
\* which is r itself or a free Registration nearer the head than r.
C9_FirstFreeSlot ==
    [][\A t \in Threads :
          /\ (last[t] # Null /\ pc[t] = "fr_cas" /\ pc'[t] = "fr_set")
                => (cur[t] = last[t] \/ (Reaches(cur[t], last[t]) /\ ractive[cur[t]]))
          /\ (last[t] # Null /\ pc[t] = "fr_cas") => pc'[t] # "idle"
          /\ (pc[t] = "fr_set" /\ pc'[t] = "ready") => rcounter'[w'[t]] = Sentinel]_vars

\* a thread has released a Registration and its next scan has claimed the
\* same one
C9_Witness ==
    \E t \in Threads :
        /\ pc[t] = "fr_set"
        /\ last[t] # Null
        /\ cur[t] = last[t]

\* C10: when the compare_exchange of try_advance fails, the counter is
\* exactly count + 1.
C10_LostCasIsNext ==
    \A t \in Threads : (pc[t] = "ta_cas" /\ epoch # count[t]) => epoch = count[t] + 1

\* C11: whenever rearrange destroys an entry, the global epoch is at least 2
\* greater than it was when the swap's compare_exchange displaced the entry's
\* value, whether that swap rotated or appended to RECENT.
C11_TwoEpochsOld ==
    [][\A t \in Threads :
          (pc[t] = "sw_rearrange" /\ pc'[t] = "sw_reset") =>
             \A i \in 1..Len(Reclaimed(t)) : epoch >= retired[Reclaimed(t)[i]] + 2]_vars

\* The Registrations of the list: those a scan from the head meets.
InList(r) == r # Null /\ (r = head \/ Reaches(head, r))

\* C12: the list gains a node only when it holds no free slot: a node is
\* pushed only after a scan found no free slot, and a push that lost the race
\* on head scans again before it builds another node.
C12_NoPushWhileFree ==
    [][\A t \in Threads :
          (pc[t] = "cr_cas" /\ pc'[t] = "ready") =>
             ~\E r \in Regs : InList(r) /\ ractive[r]]_vars

\* The set of Registrations of the list.
Listed == {r \in Regs : InList(r)}

\* C13: a Registration whose compare_exchange on head succeeded stays in the
\* list, with the next link it was inserted with; a node whose
\* compare_exchange failed, or has not been tried yet, is not in the list;
\* and the list changes only by a successful compare_exchange of
\* create_register, which adds exactly the node of that call.
C13_ListIntegrity ==
    /\ [](/\ \A r \in Regs : creator[r] # Null => InList(r)
          /\ \A t \in Threads : pc[t] \in {"cr_cas", "cr_retry"} => ~InList(node[t]))
    /\ [][/\ \A r \in Listed : InList(r)' /\ rnext'[r] = rnext[r]
          /\ \A t \in Threads :
                (pc[t] = "cr_cas" /\ pc'[t] = "ready")
                    => Listed' = Listed \cup {node[t]}
          /\ (\A t \in Threads : ~(pc[t] = "cr_cas" /\ pc'[t] = "ready"))
                    => Listed' = Listed]_vars

\* a create_register has lost the race on head to another one, whose node
\* is in the list
C13_Witness ==
    \E t \in Threads :
        /\ pc[t] = "cr_retry"
        /\ head # Null
        /\ creator[head] \notin {Null, t}
        /\ ~InList(node[t])

\* C14: a try_advance whose scan meets a Registration announced at a
\* non-sentinel epoch other than count returns count with that step, without
\* a compare_exchange; and no step of a try_advance before its
\* compare_exchange writes the global counter or any local_epoch.
C14_BlockedAdvanceFrame ==
    [][\A t \in Threads :
          /\ (/\ pc[t] = "ta_scan"
              /\ rcounter[cur[t]] >= 0
              /\ rcounter[cur[t]] # count[t]
              /\ <<pc[t], cur[t]>>' # <<pc[t], cur[t]>>)
                => /\ pc'[t] = "announce"
                   /\ count'[t] = count[t]
          /\ (/\ pc[t] \in {"ta_count", "ta_head", "ta_scan"}
              /\ <<pc[t], cur[t], count[t]>>' # <<pc[t], cur[t], count[t]>>)
                => /\ epoch' = epoch
                   /\ rcounter' = rcounter]_vars

\* a try_advance that read count = 0 has returned 0: its scan was blocked by
\* a Registration announced at a later epoch
C14_Witness ==
    \E t \in Threads :
        /\ pc[t] = "announce"
        /\ count[t] = 0
        /\ epoch > 0
        /\ \E r \in Regs : rcounter[r] > 0

\* How often value v occurs in the sequence q.
Occurrences(q, v) == Cardinality({i \in 1..Len(q) : q[i] = v})

\* C15: a swap whose compare_exchange succeeded with announced epoch count
\* rotates when RECENT's stamp is older than count: with g the counter read by
\* the rotation, RECENT becomes stamped g and holds the displaced value only,
\* PREVIOUS becomes stamped g - 1 and holds the former RECENT entries, and
\* the former PREVIOUS entries, and only they, are destroyed. Otherwise the
\* displaced value is appended to RECENT, nothing is destroyed and no stamp
\* changes. No step changes the buffers of a thread other than the one that
\* takes it.
C15_RetireAndRotate ==
    [][\A t \in Threads :
          /\ (pc[t] = "sw_cas" /\ pc'[t] # "sw_cas" /\ pc'[t] # "sw_load")
                => /\ ptr = current[t] /\ ptr' = boxed[t]
                   /\ destroyed' = destroyed
                   /\ previous'[t] = previous[t]
                   /\ IF recent[t].stamp < count[t]
                      THEN pc'[t] = "sw_rearrange" /\ recent'[t] = recent[t]
                      ELSE /\ pc'[t] = "sw_reset"
                           /\ recent'[t] = [stamp |-> recent[t].stamp,
                                            elements |-> Append(recent[t].elements, current[t])]
          /\ (pc[t] = "sw_rearrange" /\ pc'[t] # "sw_rearrange")
                => /\ pc'[t] = "sw_reset"
                   /\ recent'[t] = [stamp |-> epoch, elements |-> <<current[t]>>]
                   /\ previous'[t] = [stamp |-> epoch - 1, elements |-> recent[t].elements]
                   /\ \A v \in Vals :
                         destroyed'[v] = destroyed[v] + Occurrences(previous[t].elements, v)
          /\ (recent'[t] # recent[t] \/ previous'[t] # previous[t])
                => pc[t] \in {"sw_cas", "sw_rearrange"} /\ pc'[t] # pc[t]]_vars

\* a rotation has read a counter newer than the epoch its swap announced and
\* has moved the former RECENT entries to PREVIOUS
C15_Witness ==
    \E t \in Threads :
        /\ pc[t] = "sw_reset"
        /\ recent[t].stamp > count[t]
        /\ recent[t].elements = <<current[t]>>
        /\ previous[t].stamp = recent[t].stamp - 1
        /\ Len(previous[t].elements) >= 2

\* Thread t is the only one that has made a call, and its calls were swaps:
\* a swap of another thread would have left it inside a call or with a
\* stamped RECENT.
Alone(t) ==
    /\ nloads = 0
    /\ \A u \in Threads \ {t} : pc[u] \in {"idle", "ready"} /\ recent[u] = ListNew

\* C16: when one thread alone swaps, its n-th swap advances the counter to
\* n, displaces value n and rotates; value n is in RECENT after swap n, in
\* PREVIOUS after swap n + 1 and is destroyed, once, by the rotation of
\* swap n + 2.
C16_SoloSchedule ==
    \A t \in RunSet :
        Alone(t) =>
            LET d == Cardinality(Displaced)
                r == IF pc[t] = "sw_rearrange" THEN d - 1 ELSE d
            IN  /\ Displaced = 1..d
                /\ \A v \in Vals : destroyed[v] = IF v <= r - 2 THEN 1 ELSE 0
                /\ pc[t] \in {"ready", "sw_reset"} =>
                       /\ epoch = d
                       /\ d >= 1 => recent[t] = [stamp |-> d, elements |-> <<d>>]
                       /\ d >= 2 => previous[t] = [stamp |-> d - 1, elements |-> <<d - 1>>]
                /\ pc[t] \in {"announce", "sw_load", "sw_cas"} =>
                       /\ epoch = d + 1
                       /\ count[t] = d + 1
                       /\ recent[t].stamp < count[t]
                /\ pc[t] = "sw_rearrange" => epoch = d

\* the third swap of a thread running alone has destroyed the value its
\* first swap displaced and left the values of the second and third buffered
C16_Witness ==
    \E t \in RunSet :
        /\ Alone(t)
        /\ pc[t] = "sw_reset"
        /\ Cardinality(Displaced) = 3
        /\ destroyed[InitVal] = 1
        /\ Buffered(t) = <<2, 3>>

\* Thread t is inside a call.
InCall(t) == pc[t] \notin {"idle", "ready"}

\* C17: a thread inside a call can always take its next step, whatever the
\* other threads hold or announce; a load goes from try_advance to the
\* announcement, the read of the pointer and the return, with no way back;
\* and with threads that run freely and make finitely many calls every call
\* that started returns.
C17_NonBlocking ==
    /\ [](\A t \in 1..NThreads : InCall(t) => ENABLED <<Step(t)>>_vars)
    /\ [][\A t \in 1..NThreads :
            /\ (op[t] = "load" /\ pc[t] = "announce") => pc'[t] \in {"announce", "ld_ptr"}
            /\ pc[t] = "ld_ptr" => pc'[t] \in {"ld_ptr", "ready"}]_vars
    /\ \A t \in 1..NThreads : InCall(t) ~> ~InCall(t)

\* a swap is about to lose the race on the pointer to the swap of another
\* thread: its compare_exchange fails and it loads the pointer again
C17_Witness ==
    \E t \in Threads :
        /\ pc[t] = "sw_cas"
        /\ ptr # current[t]
        /\ current[t] # Null

\* How often thread t holds value v for reclamation: in its buffers, or as
\* the entry its rearrange is about to put into RECENT.
Held(t, v) ==
    Occurrences(Buffered(t), v) + (IF pc[t] = "sw_rearrange" /\ current[t] = v THEN 1 ELSE 0)

\* How often the threads of S hold value v.
RECURSIVE Copies(_, _)
Copies(S, v) ==
    IF S = {} THEN 0
    ELSE LET t == CHOOSE x \in S : TRUE IN Held(t, v) + Copies(S \ {t}, v)

\* C18: a value a swap displaced is held once, by one thread, until it is
\* destroyed, once; a value no swap displaced is held by nobody and not
\* destroyed; the value installed in the shared pointer has not been
\* displaced.
C18_RetireDisplaced ==
    /\ ptr \notin Displaced
    /\ \A v \in Vals :
          /\ destroyed[v] <= 1
          /\ Copies(Threads, v) + destroyed[v] = IF v \in Displaced THEN 1 ELSE 0

\* both threads hold values their swaps displaced, one of them two values in
\* RECENT, and a value has been destroyed
C18_Witness ==
    \E t, u \in Threads :
        /\ t # u
        /\ Len(recent[t].elements) = 2
        /\ Buffered(u) # <<>>
        /\ \E v \in Vals : destroyed[v] = 1

\* C19: the value a try_advance returns, count + 1 after a lost
\* compare_exchange included, every non-sentinel local_epoch and every buffer
\* stamp are at most the global counter.
C19_NotAheadOfClock ==
    /\ \A t \in Threads :
          /\ pc[t] = "announce" => count[t] <= epoch
          /\ recent[t].stamp <= epoch
          /\ previous[t].stamp <= epoch
    /\ \A r \in Regs : rcounter[r] <= epoch

\* a try_advance whose scan met no announcement has returned count + 1, the
\* current epoch, which another thread has announced and stamped its RECENT
\* with: one compare_exchange moved the counter there for both
C19_Witness ==
    \E t, u \in Threads :
        /\ t # u
        /\ pc[t] = "announce"
        /\ guards[t] = <<>>
        /\ count[t] = epoch
        /\ rcounter[w[u]] = epoch
        /\ recent[u].stamp = epoch
        /\ pc[u] = "sw_reset"

\* C20: a Registration that is free (active flag set, held by no Worker)
\* has local_epoch -1, so that no try_advance is blocked by a free slot.
C20_FreeIsSentinel ==
    \A r \in Regs : (ractive[r] /\ Holders(r) = {}) => rcounter[r] = Sentinel
====
